---- MODULE Spec2Model ----
(***************************************************************************)
(* A model of oleform.py, the decoder of the OFORMS structures of a        *)
(* UserForm: the position-tracked cursor (ExtendedStream), the property    *)
(* masks (Mask and its three subclasses), the leaf decoders, the           *)
(* FormControl / OleSiteConcreteControl / MorphDataControl decoders and    *)
(* extract_OleFormVariables.                                               *)
(*                                                                         *)
(* Representation.  A byte is a number in 0..255 and a stream a sequence   *)
(* of bytes.  TLC's integers are 32-bit signed, so the value of a 32-bit   *)
(* or 64-bit field is kept as its base-256 digits, least significant       *)
(* first; 8-bit and 16-bit fields are plain numbers.  ToInt turns digits   *)
(* into a number where the code does arithmetic with the value; TLC stops  *)
(* with an overflow error if such a value does not fit.                    *)
(*                                                                         *)
(* A Python call that may raise is an operator on a context r =            *)
(* [s, err, v, l]: s the ExtendedStream after the call, err the exception  *)
(* raised (NoErr when none), v the value returned and l the locals of the  *)
(* function that makes the call.  Every operator returns its argument      *)
(* unchanged when r.err is already an exception, so an exception           *)
(* propagates through the calls that follow it.                            *)
(***************************************************************************)
EXTENDS Integers, Sequences, FiniteSets, TLC

VARIABLES
    control,    \* the ExtendedStream over the stream decoded (the 'f' stream of a form)
    data,       \* the ExtendedStream over the 'o' stream of a form
    variables,  \* the list of site records built so far
    frame,      \* the other locals of the running decoder
    pc,         \* where the program is
    ret,        \* what the last call returned or raised, as the caller sees it
    obs         \* the operation last applied and the state it was applied to

vars == <<control, data, variables, frame, pc, ret, obs>>

NoFrame == [CountOfSites |-> 0, remaining |-> 0, i |-> 0]

----------------------------------------------------------------------------
(* Exceptions *)

NoErr == [kind |-> "none", pos |-> 0, reason |-> <<>>]

StructError == [kind |-> "struct.error", pos |-> 0, reason |-> <<"unpack requires a buffer">>]

AttributeError(attr) == [kind |-> "AttributeError", pos |-> 0, reason |-> <<"no attribute", attr>>]

OleFormParsingError(pos, reason) == [kind |-> "OleFormParsingError", pos |-> pos, reason |-> reason]

Raised(r) == r.err.kind # "none"

----------------------------------------------------------------------------
(* Bytes and numbers *)

Pow2(n) == IF n = 0 THEN 1 ELSE IF n = 1 THEN 2 ELSE IF n = 2 THEN 4 ELSE IF n = 3 THEN 8
           ELSE IF n = 4 THEN 16 ELSE IF n = 5 THEN 32 ELSE IF n = 6 THEN 64 ELSE 128

Min(a, b) == IF a <= b THEN a ELSE b

Reverse(q) == [i \in 1..Len(q) |-> q[Len(q) + 1 - i]]

\* the number with base-256 digits d, least significant first
RECURSIVE ToInt(_)
ToInt(d) == IF d = <<>> THEN 0 ELSE d[1] + 256 * ToInt(Tail(d))

\* (val & (1 << i)) >> i, for val given by its base-256 digits
BitOf(val, i) == IF i \div 8 + 1 > Len(val) THEN 0 ELSE (val[i \div 8 + 1] \div Pow2(i % 8)) % 2

----------------------------------------------------------------------------
(* The byte source under an ExtendedStream: a file-like object, io.BytesIO  *)
(* in olefile.  read(size) returns the next size bytes, fewer only at the   *)
(* end of the stream, and everything that remains when size is negative.    *)

StreamRead(stream, off, size) ==
    LET n == IF size < 0 THEN Len(stream) - off ELSE Min(size, Len(stream) - off)
    IN  [bytes |-> SubSeq(stream, off + 1, off + n), off |-> off + n]

----------------------------------------------------------------------------
(* class ExtendedStream *)

\* __init__: _pos = 0, _jumps = [], _next_jump not set yet
ExtendedStream(stream) ==
    [pos |-> 0, jumps |-> <<>>, next_jump |-> <<>>, stream |-> stream, off |-> 0]

Call(s) == [s |-> s, err |-> NoErr, v |-> <<>>, l |-> <<>>]

\* read: self._pos += size; return self._stream.read(size)
read(r, size) ==
    IF Raised(r) THEN r
    ELSE LET got == StreamRead(r.s.stream, r.s.off, size)
         IN  [r EXCEPT !.s.pos = @ + size, !.s.off = got.off, !.v = got.bytes]

will_jump_to(r, size) ==
    IF Raised(r) THEN r ELSE [r EXCEPT !.s.next_jump = <<TRUE, size>>]

will_pad_default == 4

will_pad(r, pad) ==
    IF Raised(r) THEN r ELSE [r EXCEPT !.s.next_jump = <<FALSE, pad>>]

\* __enter__: push (self._pos, jump_type, size)
enter(r) ==
    IF Raised(r) THEN r
    ELSE [r EXCEPT !.s.jumps = Append(@, <<r.s.pos, r.s.next_jump[1], r.s.next_jump[2]>>)]

\* a variant of ExitJump that reads size bytes whatever was consumed
ExitJumpWholeSize(r, start, size) == read(r, size)

\* the filler read of a JumpTo region on its close
ExitJump(r, start, size) == read(r, size - (r.s.pos - start))

\* a variant of ExitPad without the test of line 91: it pads when aligned too
ExitPadAlways(r, start, size) == read(r, size - ((r.s.pos - start) % size))

\* the filler read of a padded region on its close
ExitPad(r, start, size) ==
    LET align == (r.s.pos - start) % size
    IN  IF align # 0 THEN read(r, size - align) ELSE r

\* __exit__: with an exception in flight (exc_type is not None) nothing is
\* done, the entry is not even popped; the value of the block, r.v, is kept
exit(r) ==
    IF Raised(r) THEN r
    ELSE LET top    == r.s.jumps[Len(r.s.jumps)]
             popped == [r EXCEPT !.s.jumps = SubSeq(@, 1, Len(@) - 1)]
             closed == IF top[2] THEN ExitJump(popped, top[1], top[3])
                                 ELSE ExitPad(popped, top[1], top[3])
         IN  [closed EXCEPT !.v = r.v]

\* struct.calcsize(format)
CalcSize(format) ==
    CASE format = "<B"   -> 1
      [] format = "<BB"  -> 2
      [] format = "<H"   -> 2
      [] format = "<L"   -> 4
      [] format = "<LL"  -> 8
      [] format = "<LHH" -> 8
      [] format = "<Q"   -> 8
      [] format = ">Q"   -> 8

\* struct.unpack(format, b) for a buffer b of calcsize(format) bytes
StructUnpack(format, b) ==
    CASE format = "<B"   -> <<b[1]>>
      [] format = "<BB"  -> <<b[1], b[2]>>
      [] format = "<H"   -> <<b[1] + 256 * b[2]>>
      [] format = "<L"   -> <<SubSeq(b, 1, 4)>>
      [] format = "<LL"  -> <<SubSeq(b, 1, 4), SubSeq(b, 5, 8)>>
      [] format = "<LHH" -> <<SubSeq(b, 1, 4), b[5] + 256 * b[6], b[7] + 256 * b[8]>>
      [] format = "<Q"   -> <<b>>
      [] format = ">Q"   -> <<Reverse(b)>>

\* unpacks: struct.unpack raises struct.error unless the buffer read has
\* exactly calcsize(format) bytes
unpacks(r, format, size) ==
    LET r1 == read(r, size)
    IN  IF Raised(r1) THEN r1
        ELSE IF Len(r1.v) # CalcSize(format) THEN [r1 EXCEPT !.err = StructError, !.v = <<>>]
        ELSE [r1 EXCEPT !.v = StructUnpack(format, r1.v)]

unpack(r, format, size) ==
    LET r1 == unpacks(r, format, size)
    IN  IF Raised(r1) THEN r1 ELSE [r1 EXCEPT !.v = r1.v[1]]

raise_error(r, reason, back) ==
    IF Raised(r) THEN r ELSE [r EXCEPT !.err = OleFormParsingError(r.s.pos - back, reason), !.v = <<>>]

check_values(r, name, format, size, expected) ==
    LET r1 == unpacks(r, format, size)
    IN  IF Raised(r1) THEN r1
        ELSE IF r1.v # expected THEN raise_error(r1, <<"Invalid", name, expected, r1.v>>, 0)
        ELSE r1

check_value(r, name, format, size, expected) ==
    check_values(r, name, format, size, <<expected>>)

\* a 32-bit zero, the value 0 of a field that is otherwise read with '<L'
Zero32 == <<0, 0, 0, 0>>

----------------------------------------------------------------------------
(* Function calls.  The body of a function f is an operator                 *)
(* f_line(call, line): the statements from the one at the source line given *)
(* up to the return, one CASE arm a statement, applied to r, the value of   *)
(* the context call, whose field l holds the local variables; an exception  *)
(* ends it at once.                                                         *)

\* the element of a set of one element
Only(S) == CHOOSE x \in S : TRUE

\* the callee's frame: its locals, not yet assigned
Frame(r, locals) == IF Raised(r) THEN r ELSE [r EXCEPT !.l = locals]

\* back in the caller r: its locals again, with what the callee res did
Return(res, r) == [res EXCEPT !.l = r.l]

\* return v
Ret(r, v) == IF Raised(r) THEN r ELSE [r EXCEPT !.v = v]

\* name = <the value of the call r>
Assign(r, name) == IF Raised(r) THEN r ELSE [r EXCEPT !.l[name] = r.v]

\* the i-th name of a tuple assignment from the call r
AssignItem(r, name, i) == IF Raised(r) THEN r ELSE [r EXCEPT !.l[name] = r.v[i]]

\* name = name + <the value of the call r>, for tuples
Extend(r, name) == IF Raised(r) THEN r ELSE [r EXCEPT !.l[name] = @ \o r.v]

----------------------------------------------------------------------------
(* The cursor on its own: any sequence of reads, field reads and regions    *)
(* over a stream whose i-th byte is i.                                      *)

MaxStream == 4
MaxRead == 3
MaxJump == 2
MaxPos == 4
MaxDepth == 2

\* what the last operation was, and the cursor it was applied to
Idle == [op |-> "none", size |-> 0, pos |-> 0, off |-> 0, top |-> <<>>]

Observe(op, size) ==
    [op |-> op, size |-> size, pos |-> control.pos, off |-> control.off,
     top |-> IF control.jumps = <<>> THEN <<>> ELSE control.jumps[Len(control.jumps)]]

CursorInit ==
    /\ \E n \in 0..MaxStream : control = ExtendedStream([i \in 1..n |-> i])
    /\ data = ExtendedStream(<<>>)
    /\ variables = <<>>
    /\ frame = NoFrame
    /\ pc = "cursor"
    /\ ret = Call(control)
    /\ obs = Idle

CursorLive == pc = "cursor" /\ control.pos <= MaxPos

CursorDone(r) ==
    /\ control' = r.s
    /\ ret' = r
    /\ pc' = IF Raised(r) THEN "error" ELSE "cursor"
    /\ UNCHANGED <<data, variables, frame>>

CursorRead ==
    /\ CursorLive
    /\ \E n \in 0..MaxRead :
         /\ CursorDone(read(Call(control), n))
         /\ obs' = Observe("read", n)

CursorUnpacks ==
    /\ CursorLive
    /\ \E f \in {"<B", "<H", "<L"} :
         /\ CursorDone(unpacks(Call(control), f, CalcSize(f)))
         /\ obs' = Observe("unpacks", CalcSize(f))

CursorWithJumpTo ==
    /\ CursorLive
    /\ Len(control.jumps) < MaxDepth
    /\ \E k \in 0..MaxJump :
         /\ CursorDone(enter(will_jump_to(Call(control), k)))
         /\ obs' = Observe("enter", k)

CursorWithPad ==
    /\ CursorLive
    /\ Len(control.jumps) < MaxDepth
    /\ \E m \in {2, will_pad_default} :
         /\ CursorDone(enter(will_pad(Call(control), m)))
         /\ obs' = Observe("enter", m)

CursorExit ==
    /\ pc = "cursor"
    /\ control.jumps # <<>>
    /\ CursorDone(exit(Call(control)))
    /\ obs' = Observe("exit", 0)

CursorNext == CursorRead \/ CursorUnpacks \/ CursorWithJumpTo \/ CursorWithPad \/ CursorExit

SpecCursor == CursorInit /\ [][CursorNext]_vars

\* C1: closing a JumpTo(k) region opened at start leaves the cursor at
\* start + k when the c bytes consumed inside are at most k, and when c > k
\* the close fails with an error and does not move the cursor.  (Stated for
\* a cursor whose reads so far all stayed within the stream.)
C1_JumpToClose ==
    (obs.op = "exit" /\ obs.top[2] /\ obs.pos = obs.off) =>
        LET start == obs.top[1]
            k     == obs.top[3]
            c     == obs.pos - start
        IN  IF c <= k THEN ~Raised(ret) /\ control.pos = start + k
                      ELSE Raised(ret) /\ control.pos = obs.pos

\* C2: read(n) returns exactly the next n bytes and advances the position by
\* n, or fails when fewer than n bytes remain; the position never passes the
\* end of the stream.
C2_ReadExact ==
    obs.op = "read" =>
        LET remaining == Len(control.stream) - obs.off
        IN  IF obs.size <= remaining
            THEN /\ ~Raised(ret)
                 /\ ret.v = SubSeq(control.stream, obs.off + 1, obs.off + obs.size)
                 /\ control.pos = obs.pos + obs.size
            ELSE /\ Raised(ret)
                 /\ control.pos <= Len(control.stream)

----------------------------------------------------------------------------
(* class Mask and its subclasses *)

FormPropMask_size == 28

FormPropMask_names ==
    <<"Unused1", "fBackColor", "fForeColor", "fNextAvailableID", "Unused2_0", "Unused2_1",
      "fBooleanProperties", "fBooleanProperties", "fMousePointer", "fScrollBars",
      "fDisplayedSize", "fLogicalSize", "fScrollPosition", "fGroupCnt", "Reserved",
      "fMouseIcon", "fCycle", "fSpecialEffect", "fBorderColor", "fCaption", "fFont",
      "fPicture", "fZoom", "fPictureAlignment", "fPictureTiling", "fPictureSizeMode",
      "fShapeCookie", "fDrawBuffer">>

SitePropMask_size == 15

SitePropMask_names ==
    <<"fName", "fTag", "fID", "fHelpContextID", "fBitFlags", "fObjectStreamSize",
      "fTabIndex", "fClsidCacheIndex", "fPosition", "fGroupID", "Unused1",
      "fControlTipText", "fRuntimeLicKey", "fControlSource", "fRowSource">>

MorphDataPropMask_size == 33

MorphDataPropMask_names ==
    <<"fVariousPropertyBits", "fBackColor", "fForeColor", "fMaxLength", "fBorderStyle",
      "fScrollBars", "fDisplayStyle", "fMousePointer", "fSize", "fPasswordChar",
      "fListWidth", "fBoundColumn", "fTextColumn", "fColumnCount", "fListRows",
      "fcColumnInfo", "fMatchEntry", "fListStyle", "fShowDropButtonWhen", "UnusedBits1",
      "fDropButtonStyle", "fMultiSelect", "fValue", "fCaption", "fPicturePosition",
      "fBorderColor", "fSpecialEffect", "fMouseIcon", "fPicture", "fAccelerator",
      "UnusedBits2", "Reserved", "fGroupName">>

\* Mask.__init__ of a subclass with the given _size and _names: _val[i] is
\* bit i of val (the sequence is 1-based, so _val[i] of the source is val[i + 1])
Mask(size, names, val) ==
    [size |-> size, names |-> names, val |-> [i \in 1..size |-> BitOf(val, i - 1)]]

FormPropMask(val) == Mask(FormPropMask_size, FormPropMask_names, val)

SitePropMask(val) == Mask(SitePropMask_size, SitePropMask_names, val)

MorphDataPropMask(val) == Mask(MorphDataPropMask_size, MorphDataPropMask_names, val)

\* cls(<the value of the call r>), for each of the three classes
FormPropMaskOf(r) == IF Raised(r) THEN r ELSE [r EXCEPT !.v = FormPropMask(r.v)]

SitePropMaskOf(r) == IF Raised(r) THEN r ELSE [r EXCEPT !.v = SitePropMask(r.v)]

MorphDataPropMaskOf(r) == IF Raised(r) THEN r ELSE [r EXCEPT !.v = MorphDataPropMask(r.v)]

\* list.index(name), 1-based: the first position that holds name
NamesIndex(names, name) ==
    CHOOSE i \in 1..Len(names) : names[i] = name /\ \A j \in 1..(i - 1) : names[j] # name

\* Mask.__getitem__ and Mask.__getattr__, for a name of the mask
getitem(mask, name) == mask.val[NamesIndex(mask.names, name)]

\* Mask.__str__, as the list of names it joins with ', '
RECURSIVE SelectNames(_, _)
SelectNames(mask, i) ==
    IF i > mask.size THEN <<>>
    ELSE (IF mask.val[i] = 1 THEN <<mask.names[i]>> ELSE <<>>) \o SelectNames(mask, i + 1)

Mask_str(mask) == SelectNames(mask, 1)

----------------------------------------------------------------------------
(* The masks on their own: a mask of each class built from a value and      *)
(* queried by the name declared at each position.                           *)

\* the bytes a mask value is composed of in this check
MaskDigits == {0, 64, 128, 255}

MaskClasses == {"FormPropMask", "SitePropMask", "MorphDataPropMask"}

MaskOf(cls, val) ==
    CASE cls = "FormPropMask"      -> FormPropMask(val)
      [] cls = "SitePropMask"      -> SitePropMask(val)
      [] cls = "MorphDataPropMask" -> MorphDataPropMask(val)

\* the values unpacked for a mask: 4 bytes ('<L'), 8 bytes for MorphData ('<Q')
MaskValues(cls) ==
    IF cls = "MorphDataPropMask"
    THEN {d \o <<0, 0, 0, 0>> : d \in [1..4 -> MaskDigits]}
           \cup {<<0, 0, 0, d>> \o <<e, 0, 0, 0>> : d \in MaskDigits, e \in {1, 3}}
    ELSE [1..4 -> MaskDigits]

\* val < 2^size
FitsIn(val, size) == \A i \in size..(8 * Len(val) - 1) : BitOf(val, i) = 0

MaskInit ==
    /\ control = ExtendedStream(<<>>)
    /\ data = ExtendedStream(<<>>)
    /\ variables = <<>>
    /\ frame = NoFrame
    /\ pc = "mask"
    /\ ret = Call(control)
    /\ \E cls \in MaskClasses : \E val \in MaskValues(cls) :
         obs = [op |-> "mask", cls |-> cls, val |-> val, i |-> 0]

MaskQuery ==
    /\ pc = "mask"
    /\ LET mask == MaskOf(obs.cls, obs.val)
       IN  \E i \in 0..(mask.size - 1) :
             /\ ret' = [ret EXCEPT !.v = getitem(mask, mask.names[i + 1])]
             /\ obs' = [obs EXCEPT !.op = "query", !.i = i]
    /\ pc' = "queried"
    /\ UNCHANGED <<control, data, variables, frame>>

MaskNext == MaskQuery

SpecMask == MaskInit /\ [][MaskNext]_vars

\* C3: for each of the three masks, every N-bit value v and every position
\* i, the flag queried by the name declared at position i is bit i of v.
C3_FlagByName ==
    (pc = "queried" /\ FitsIn(obs.val, MaskOf(obs.cls, obs.val).size)) =>
        ret.v = BitOf(obs.val, obs.i)

----------------------------------------------------------------------------
(* Leaf decoders *)

consume_TextProps_locals == [cbTextProps |-> 0]

RECURSIVE consume_TextProps_line(_, _)
consume_TextProps_line(call, line) ==
    Only({IF Raised(r) THEN r
          ELSE CASE line = 114 ->
                      consume_TextProps_line(
                          check_values(r, "TextProps (versions)", "<BB", 2, <<0, 2>>), 115)
                 [] line = 115 ->
                      consume_TextProps_line(Assign(unpack(r, "<H", 2), "cbTextProps"), 116)
                 [] line = 116 -> read(r, r.l.cbTextProps)
          : r \in {call}})

consume_TextProps(r) ==
    Return(consume_TextProps_line(Frame(r, consume_TextProps_locals), 114), r)

\* count & 0x7FFFFFFF, for count given by its four base-256 digits
Low31(count) == ToInt(<<count[1], count[2], count[3], count[4] % 128>>)

\* the call of stream.aise_error at line 149: ExtendedStream has no such
\* attribute, so the attribute lookup raises AttributeError
aise_error(r, reason, back) ==
    IF Raised(r) THEN r ELSE [r EXCEPT !.err = AttributeError("aise_error"), !.v = <<>>]

consume_CountOfBytesWithCompressionFlag_locals == [count |-> Zero32]

RECURSIVE consume_CountOfBytesWithCompressionFlag_line(_, _)
consume_CountOfBytesWithCompressionFlag_line(call, line) ==
    Only({IF Raised(r) THEN r
          ELSE CASE line = 147 ->
                      consume_CountOfBytesWithCompressionFlag_line(
                          Assign(unpack(r, "<L", 4), "count"), 148)
                 [] line = 148 ->
                      consume_CountOfBytesWithCompressionFlag_line(
                          IF BitOf(r.l.count, 31) = 0 /\ r.l.count # Zero32
                          THEN aise_error(r, <<"Uncompress string length">>, 4) ELSE r, 150)
                 [] line = 150 -> Ret(r, Low31(r.l.count))
          : r \in {call}})

consume_CountOfBytesWithCompressionFlag(r) ==
    Return(consume_CountOfBytesWithCompressionFlag_line(
               Frame(r, consume_CountOfBytesWithCompressionFlag_locals), 147), r)

----------------------------------------------------------------------------
(* CompressedCount on its own: the decoder applied to a stream of three to  *)
(* five bytes.                                                              *)

CountDigits == {0, 5, 128, 255}

MinCountLen == 3
MaxCountLen == 5

CountInit ==
    /\ \E n \in MinCountLen..MaxCountLen : \E b \in [1..n -> CountDigits] :
         control = ExtendedStream(b)
    /\ data = ExtendedStream(<<>>)
    /\ variables = <<>>
    /\ frame = NoFrame
    /\ pc = "count"
    /\ ret = Call(control)
    /\ obs = Idle

CountDecode ==
    /\ pc = "count"
    /\ ret' = consume_CountOfBytesWithCompressionFlag(Call(control))
    /\ control' = ret'.s
    /\ pc' = IF Raised(ret') THEN "raised" ELSE "returned"
    /\ obs' = Observe("count", 4)
    /\ UNCHANGED <<data, variables, frame>>

CountNext == CountDecode

SpecCount == CountInit /\ [][CountNext]_vars

\* C6: on a 4-byte value c the count decoder returns 0 for c = 0, c mod 2^31
\* when the high bit of c is set, and flags the uncompressed-length condition
\* when c is not 0 and its high bit is clear.
C6_CompressedCount ==
    (obs.op = "count" /\ Len(control.stream) >= 4) =>
        LET c == SubSeq(control.stream, 1, 4)
        IN  IF c = <<0, 0, 0, 0>> THEN ~Raised(ret) /\ ret.v = 0
            ELSE IF c[4] >= 128 THEN ~Raised(ret) /\ ret.v = Low31(c)
            ELSE /\ ret.err.kind = "OleFormParsingError"
                 /\ ret.err.reason = <<"Uncompress string length">>

----------------------------------------------------------------------------
(* consume_OleSiteConcreteControl *)

\* for prop in props: if propmask[prop]: stream.read(size)
RECURSIVE ReadEach(_, _, _, _)
ReadEach(call, propmask, props, size) ==
    Only({IF props = <<>> THEN r
          ELSE ReadEach(IF getitem(propmask, Head(props)) = 1 THEN read(r, size) ELSE r,
                        propmask, Tail(props), size)
          : r \in {call}})

consume_OleSiteConcreteControl_locals ==
    [cbSite |-> 0, propmask |-> <<>>, name_len |-> 0, tag_len |-> 0, id |-> Zero32,
     tabindex |-> 0, ClsidCacheIndex |-> 0, name |-> <<>>, tag |-> <<>>]

\* the body from the statement at line on, up to the statement at stop
\* (stop = 0: up to the return)
RECURSIVE consume_OleSiteConcreteControl_line(_, _, _)
consume_OleSiteConcreteControl_line(call, line, stop) ==
    Only({IF Raised(r) \/ line = stop THEN r
          ELSE CASE line = 170 ->
                      consume_OleSiteConcreteControl_line(
                          check_value(r, "OleSiteConcreteControl (version)", "<H", 2, 0), 171, stop)
                 [] line = 171 ->
                      consume_OleSiteConcreteControl_line(
                          Assign(unpack(r, "<H", 2), "cbSite"), 172, stop)
                 [] line = 172 ->
                      consume_OleSiteConcreteControl_line(
                          enter(will_jump_to(r, r.l.cbSite)), 173, stop)
                 [] line = 173 ->
                      consume_OleSiteConcreteControl_line(
                          Assign(SitePropMaskOf(unpack(r, "<L", 4)), "propmask"), 175, stop)
                 [] line = 175 ->
                      consume_OleSiteConcreteControl_line(
                          [r EXCEPT !.l.name_len = 0, !.l.tag_len = 0, !.l.id = Zero32], 176, stop)
                 [] line = 176 ->
                      consume_OleSiteConcreteControl_line(
                          IF getitem(r.l.propmask, "fName") = 1
                          THEN Assign(consume_CountOfBytesWithCompressionFlag(r), "name_len")
                          ELSE r, 178, stop)
                 [] line = 178 ->
                      consume_OleSiteConcreteControl_line(
                          IF getitem(r.l.propmask, "fTag") = 1
                          THEN Assign(consume_CountOfBytesWithCompressionFlag(r), "tag_len")
                          ELSE r, 180, stop)
                 [] line = 180 ->
                      consume_OleSiteConcreteControl_line(
                          IF getitem(r.l.propmask, "fID") = 1
                          THEN Assign(unpack(r, "<L", 4), "id") ELSE r, 182, stop)
                 [] line = 182 ->
                      consume_OleSiteConcreteControl_line(
                          ReadEach(r, r.l.propmask,
                                   <<"fHelpContextID", "fBitFlags", "fObjectStreamSize">>, 4),
                          185, stop)
                 [] line = 185 ->
                      consume_OleSiteConcreteControl_line(
                          [r EXCEPT !.l.tabindex = 0, !.l.ClsidCacheIndex = 0], 186, stop)
                 [] line = 186 ->
                      consume_OleSiteConcreteControl_line(
                          enter(will_pad(r, will_pad_default)), 187, stop)
                 [] line = 187 ->
                      consume_OleSiteConcreteControl_line(
                          IF getitem(r.l.propmask, "fTabIndex") = 1
                          THEN Assign(unpack(r, "<H", 2), "tabindex") ELSE r, 189, stop)
                 [] line = 189 ->
                      consume_OleSiteConcreteControl_line(
                          IF getitem(r.l.propmask, "fClsidCacheIndex") = 1
                          THEN Assign(unpack(r, "<H", 2), "ClsidCacheIndex") ELSE r, 191, stop)
                 \* the last statement of the with block of line 186, and its __exit__
                 [] line = 191 ->
                      consume_OleSiteConcreteControl_line(
                          exit(IF getitem(r.l.propmask, "fGroupID") = 1 THEN read(r, 2) ELSE r),
                          194, stop)
                 [] line = 194 ->
                      consume_OleSiteConcreteControl_line(
                          ReadEach(r, r.l.propmask,
                                   <<"fControlTipText", "fRuntimeLicKey", "fControlSource",
                                     "fRowSource">>, 4),
                          198, stop)
                 [] line = 198 ->
                      consume_OleSiteConcreteControl_line(
                          Assign(read(r, r.l.name_len), "name"), 199, stop)
                 [] line = 199 ->
                      consume_OleSiteConcreteControl_line(
                          Assign(read(r, r.l.tag_len), "tag"), 200, stop)
                 \* the return is inside the with block of line 172, whose __exit__
                 \* runs with the record as the value returned
                 [] line = 200 ->
                      exit(Ret(r, [name |-> r.l.name, tag |-> r.l.tag, id |-> r.l.id,
                                   tabindex |-> r.l.tabindex,
                                   ClsidCacheIndex |-> r.l.ClsidCacheIndex]))
          : r \in {call}})

consume_OleSiteConcreteControl(r) ==
    Return(consume_OleSiteConcreteControl_line(
               Frame(r, consume_OleSiteConcreteControl_locals), 170, 0), r)

----------------------------------------------------------------------------
(* Streams for the decoders.  The operators of this section build the byte  *)
(* layouts the decoders are applied to; they are inputs, not code.          *)

\* a 16-bit and a 32-bit number, little-endian
LE16(n) == <<n % 256, n \div 256>>

LE32(n) == <<n % 256, (n \div 256) % 256, (n \div 65536) % 256, n \div 16777216>>

\* a count with the compression flag set
CC(n) == <<n % 256, (n \div 256) % 256, (n \div 65536) % 256, 128 + n \div 16777216>>

RECURSIVE Fill(_, _)
Fill(n, b) == IF n <= 0 THEN <<>> ELSE <<b>> \o Fill(n - 1, b)

\* the bytes of a mask value with exactly the flags of the set on, width bytes
RECURSIVE MaskByte(_, _, _, _)
MaskByte(names, on, k, j) ==
    IF j > 7 THEN 0
    ELSE (IF 8 * k + j + 1 <= Len(names) /\ names[8 * k + j + 1] \in on THEN Pow2(j) ELSE 0)
         + MaskByte(names, on, k, j + 1)

MaskBytes(names, on, width) == [k \in 1..width |-> MaskByte(names, on, k - 1, 0)]

If(c, b) == IF c THEN b ELSE <<>>

Count(names, on) == Cardinality({i \in 1..Len(names) : names[i] \in on})

\* an OleSiteConcreteControl with the flags of the set on: the name and the
\* tag lie inside the cbSite bytes, and cbSite is the size of the block plus adj
SiteBlock(on, name, tag, id, tabindex, clsid, adj) ==
    LET group == If("fTabIndex" \in on, LE16(tabindex)) \o If("fClsidCacheIndex" \in on, LE16(clsid))
                   \o If("fGroupID" \in on, <<9, 0>>)
        body  == MaskBytes(SitePropMask_names, on, 4)
                   \o If("fName" \in on, CC(Len(name))) \o If("fTag" \in on, CC(Len(tag)))
                   \o If("fID" \in on, LE32(id))
                   \o Fill(4 * Count(<<"fHelpContextID", "fBitFlags", "fObjectStreamSize">>, on), 7)
                   \o group \o Fill((4 - (Len(group) % 4)) % 4, 0)
                   \o Fill(4 * Count(<<"fControlTipText", "fRuntimeLicKey", "fControlSource",
                                       "fRowSource">>, on), 8)
                   \o If("fName" \in on, name) \o If("fTag" \in on, tag)
    IN  <<0, 0>> \o LE16(Len(body) + adj) \o body

----------------------------------------------------------------------------
(* The site decoder on its own.                                             *)

GroupFlags == SUBSET {"fTabIndex", "fClsidCacheIndex", "fGroupID"}

OtherFlags == {{}, {"fName"}, {"fName", "fTag"}, {"fTag", "fID", "fBitFlags"},
               {"fName", "fID", "fControlTipText", "fPosition"}}

SiteNames == {<<>>, <<65>>, <<65, 66>>}

\* cbSite declared larger than the block (trailing bytes to skip) or smaller
MaxSlack == 2
MaxShort == 2
\* bytes cut from the end of the stream
MaxCut == 6

SiteStreams ==
    {LET b == SiteBlock(g \cup o, n, <<84>>, 7, 2, 23, adj) \o Fill(IF adj > 0 THEN adj ELSE 0, 238) \o <<1, 2>>
     IN  SubSeq(b, 1, Len(b) - cut) :
       g \in GroupFlags, o \in OtherFlags, n \in SiteNames, adj \in (0 - MaxShort)..MaxSlack,
       cut \in 0..MaxCut}

SiteInit ==
    /\ \E b \in SiteStreams : control = ExtendedStream(b)
    /\ data = ExtendedStream(<<>>)
    /\ variables = <<>>
    /\ frame = NoFrame
    /\ pc = "site"
    /\ ret = Call(control)
    /\ obs = [op |-> "none"]

\* the decoder applied to the stream; obs keeps the cursor before and after
\* the padded group and before the name
SiteDecode ==
    /\ pc = "site"
    /\ ret' = consume_OleSiteConcreteControl(Call(control))
    /\ \E head \in {consume_OleSiteConcreteControl_line(
                        Frame(Call(control), consume_OleSiteConcreteControl_locals), 170, 186)} :
       \E group \in {consume_OleSiteConcreteControl_line(head, 186, 194)} :
       \E tail \in {consume_OleSiteConcreteControl_line(group, 194, 198)} :
         obs' = [op |-> "site",
                 groupDone |-> ~Raised(group),
                 propmask |-> head.l.propmask,
                 groupStart |-> head.s.pos, groupEnd |-> group.s.pos,
                 tailPos |-> tail.s.pos, tailOff |-> tail.s.off,
                 name_len |-> head.l.name_len, tag_len |-> head.l.tag_len]
    /\ control' = ret'.s
    /\ pc' = IF Raised(ret') THEN "raised" ELSE "returned"
    /\ UNCHANGED <<data, variables, frame>>

SiteNext == SiteDecode

SpecSite == SiteInit /\ [][SiteNext]_vars

\* the number of the three 2-byte fields the mask declares
GroupFields(propmask) ==
    getitem(propmask, "fTabIndex") + getitem(propmask, "fClsidCacheIndex")
      + getitem(propmask, "fGroupID")

\* C7 as stated: the group of 2-byte fields, read in a PadTo(2) region,
\* advances the cursor by 2 times the number of its fields that are present.
\* (Stated for the decodes that succeed with every read inside the stream.)
C7_GroupPadTo2 ==
    (obs.op = "site" /\ obs.groupDone /\ pc = "returned" /\ control.pos = control.off) =>
        obs.groupEnd - obs.groupStart = 2 * GroupFields(obs.propmask)

\* C7 amended: the region is will_pad() with its default of 4, so the group
\* advances the cursor by 2 times the number of fields present rounded up to
\* a multiple of 4 (0, 4, 4, 8 for 0, 1, 2, 3 fields).
C7_GroupPadTo4 ==
    (obs.op = "site" /\ obs.groupDone) =>
        obs.groupEnd - obs.groupStart = 4 * ((GroupFields(obs.propmask) + 1) \div 2)

\* a decode in which one field of the group is present and 2 filler bytes follow
C7_Witness ==
    /\ obs.op = "site" /\ obs.groupDone /\ pc = "returned"
    /\ GroupFields(obs.propmask) = 1
    /\ obs.groupEnd - obs.groupStart = 4

\* the declared length of the block the decoder was applied to
CbSite == control.stream[3] + 256 * control.stream[4]

\* the next n bytes of the stream at offset off, fewer at its end
BytesAt(stream, off, n) == SubSeq(stream, off + 1, Min(off + n, Len(stream)))

\* C8 as stated: name and tag are read after the cbSite region is closed, so
\* a successful decode ends at 4 + cbSite + nameLength + tagLength and the
\* name starts at the first byte after the cbSite bytes.  (Stated for the
\* decodes that succeed with every read inside the stream.)
C8_NameAfterRegion ==
    (obs.op = "site" /\ pc = "returned" /\ control.pos = control.off) =>
        /\ control.pos = 4 + CbSite + obs.name_len + obs.tag_len
        /\ ret.v.name = BytesAt(control.stream, 4 + CbSite, obs.name_len)

\* C8 amended: name and tag are read inside the cbSite region, right after
\* the last field of the data block and before the region is closed; a
\* successful decode leaves the tracked position at 4 + cbSite whatever the
\* name and tag lengths are.
C8_NameInsideRegion ==
    (obs.op = "site" /\ pc = "returned") =>
        /\ control.pos = 4 + CbSite
        /\ control.jumps = <<>>
        /\ ret.v.name = BytesAt(control.stream, obs.tailOff, obs.name_len)
        /\ ret.v.tag = BytesAt(control.stream, obs.tailOff + obs.name_len, obs.tag_len)

\* a successful decode of a block with a name and a tag inside cbSite and
\* bytes after them to skip
C8_Witness ==
    /\ obs.op = "site" /\ pc = "returned"
    /\ ret.v.name = <<65, 66>> /\ ret.v.tag = <<84>>
    /\ obs.tailPos + 3 < 4 + CbSite
    /\ control.pos = control.off

----------------------------------------------------------------------------
(* The other leaf decoders *)

\* (199447043, 36753, 4558, 11376937813817407569):
\* {0BE35203-8F91-11CE-9DE300AA004BB851}
UUID_StdFont == <<<<3, 82, 227, 11>>, 36753, 4558, <<81, 184, 75, 0, 170, 0, 227, 157>>>>

\* (2948729120, 55886, 4558, 13349514450607572916):
\* {AFC20920-DA4E-11CE-B94300AA006887B4}
UUID_TextProps == <<<<32, 9, 194, 175>>, 55886, 4558, <<180, 135, 104, 0, 170, 0, 67, 185>>>>

\* (199447044, 36753, 4558) and 11376937813817407569:
\* {0BE35204-8F91-11CE-9DE3-00AA004BB851}
UUID_StdPicture_1 == <<<<4, 82, 227, 11>>, 36753, 4558>>

UUID_StdPicture_2 == <<81, 184, 75, 0, 170, 0, 227, 157>>

\* 0x0000746C
StdPicture_Preamble == <<108, 116, 0, 0>>

consume_GuidAndFont_locals == [UUIDS |-> <<>>, bFaceLen |-> 0]

RECURSIVE consume_GuidAndFont_line(_, _)
consume_GuidAndFont_line(call, line) ==
    Only({IF Raised(r) THEN r
          ELSE CASE line = 120 ->
                      consume_GuidAndFont_line(
                          Extend(unpacks(Assign(unpacks(r, "<LHH", 8), "UUIDS"), ">Q", 8), "UUIDS"),
                          121)
                 [] line = 121 ->
                      consume_GuidAndFont_line(r, IF r.l.UUIDS = UUID_StdFont THEN 124 ELSE 129)
                 [] line = 124 ->
                      consume_GuidAndFont_line(check_value(r, "StdFont (version)", "<B", 1, 1), 126)
                 [] line = 126 -> consume_GuidAndFont_line(read(r, 9), 127)
                 [] line = 127 ->
                      consume_GuidAndFont_line(Assign(unpack(r, "<B", 1), "bFaceLen"), 128)
                 [] line = 128 -> read(r, r.l.bFaceLen)
                 [] line = 129 ->
                      consume_GuidAndFont_line(r, IF r.l.UUIDS = UUID_TextProps THEN 131 ELSE 133)
                 [] line = 131 -> consume_TextProps(r)
                 [] line = 133 -> raise_error(r, <<"Invalid GuidAndFont (UUID)">>, 16)
          : r \in {call}})

consume_GuidAndFont(r) ==
    Return(consume_GuidAndFont_line(Frame(r, consume_GuidAndFont_locals), 120), r)

consume_GuidAndPicture_locals == [size |-> Zero32]

RECURSIVE consume_GuidAndPicture_line(_, _)
consume_GuidAndPicture_line(call, line) ==
    Only({IF Raised(r) THEN r
          ELSE CASE line = 138 ->
                      consume_GuidAndPicture_line(
                          check_values(r, "GuidAndPicture (UUID part 1)", "<LHH", 8, UUID_StdPicture_1),
                          139)
                 [] line = 139 ->
                      consume_GuidAndPicture_line(
                          check_value(r, "GuidAndPicture (UUID part 1)", ">Q", 8, UUID_StdPicture_2),
                          141)
                 [] line = 141 ->
                      consume_GuidAndPicture_line(
                          check_value(r, "StdPicture (Preamble)", "<L", 4, StdPicture_Preamble), 142)
                 [] line = 142 ->
                      consume_GuidAndPicture_line(Assign(unpack(r, "<L", 4), "size"), 143)
                 [] line = 143 -> read(r, ToInt(r.l.size))
          : r \in {call}})

consume_GuidAndPicture(r) ==
    Return(consume_GuidAndPicture_line(Frame(r, consume_GuidAndPicture_locals), 138), r)

consume_SiteClassInfo_locals == [cbClassTable |-> 0]

RECURSIVE consume_SiteClassInfo_line(_, _)
consume_SiteClassInfo_line(call, line) ==
    Only({IF Raised(r) THEN r
          ELSE CASE line = 154 ->
                      consume_SiteClassInfo_line(
                          check_value(r, "SiteClassInfo (version)", "<H", 2, 0), 155)
                 [] line = 155 ->
                      consume_SiteClassInfo_line(Assign(unpack(r, "<H", 2), "cbClassTable"), 156)
                 [] line = 156 -> read(r, r.l.cbClassTable)
          : r \in {call}})

consume_SiteClassInfo(r) ==
    Return(consume_SiteClassInfo_line(Frame(r, consume_SiteClassInfo_locals), 154), r)

consume_FormObjectDepthTypeCount_locals == [depth |-> 0, mixed |-> 0]

RECURSIVE consume_FormObjectDepthTypeCount_line(_, _)
consume_FormObjectDepthTypeCount_line(call, line) ==
    Only({IF Raised(r) THEN r
          ELSE CASE line = 160 ->
                      consume_FormObjectDepthTypeCount_line(
                          AssignItem(AssignItem(unpacks(r, "<BB", 2), "depth", 1), "mixed", 2), 161)
                 [] line = 161 ->    \* mixed & 0x80
                      consume_FormObjectDepthTypeCount_line(r, IF r.l.mixed >= 128 THEN 162 ELSE 164)
                 [] line = 162 ->
                      consume_FormObjectDepthTypeCount_line(
                          check_value(r, "FormObjectDepthTypeCount (SITE_TYPE)", "<B", 1, 1), 163)
                 [] line = 163 -> Ret(r, r.l.mixed - 128)    \* mixed ^ 0x80
                 [] line = 164 ->
                      consume_FormObjectDepthTypeCount_line(r, IF r.l.mixed # 1 THEN 165 ELSE 166)
                 [] line = 165 ->
                      raise_error(r, <<"Invalid FormObjectDepthTypeCount (SITE_TYPE)", 1, r.l.mixed>>, 0)
                 [] line = 166 -> Ret(r, 1)
          : r \in {call}})

\* a variant of consume_FormObjectDepthTypeCount that takes the end of the
\* stream for a record that stands for no site, instead of raising
DepthTypeCountOrZero(r) ==
    IF r.s.off >= Len(r.s.stream) THEN Ret(r, 0)
    ELSE Return(consume_FormObjectDepthTypeCount_line(
                    Frame(r, consume_FormObjectDepthTypeCount_locals), 160), r)

consume_FormObjectDepthTypeCount(r) ==
    Return(consume_FormObjectDepthTypeCount_line(
               Frame(r, consume_FormObjectDepthTypeCount_locals), 160), r)

----------------------------------------------------------------------------
(* consume_FormControl up to its loops, and consume_MorphDataControl *)

\* for i in range(n): consume_SiteClassInfo(stream)
RECURSIVE SiteClassInfos(_, _)
SiteClassInfos(call, n) ==
    Only({IF n = 0 \/ Raised(r) THEN r ELSE SiteClassInfos(consume_SiteClassInfo(r), n - 1)
          : r \in {call}})

consume_FormControl_locals ==
    [cbform |-> 0, propmask |-> <<>>, BooleanProperties |-> Zero32,
     FORM_FLAG_DONTSAVECLASSTABLE |-> 0, CountOfSiteClassInfo |-> 0,
     CountOfSites |-> Zero32, CountOfBytes |-> Zero32, remaining_SiteDepthsAndTypes |-> 0]

\* the body from the statement at line on, up to the statement at stop; the
\* loops of lines 234-237 are steps of their own
RECURSIVE consume_FormControl_line(_, _, _)
consume_FormControl_line(call, line, stop) ==
    Only({IF Raised(r) \/ line = stop THEN r
          ELSE CASE line = 205 ->
                      consume_FormControl_line(
                          check_values(r, "FormControl (versions)", "<BB", 2, <<0, 4>>), 206, stop)
                 [] line = 206 ->
                      consume_FormControl_line(Assign(unpack(r, "<H", 2), "cbform"), 207, stop)
                 [] line = 207 ->
                      consume_FormControl_line(enter(will_jump_to(r, r.l.cbform)), 208, stop)
                 [] line = 208 ->
                      consume_FormControl_line(
                          Assign(FormPropMaskOf(unpack(r, "<L", 4)), "propmask"), 210, stop)
                 [] line = 210 ->
                      consume_FormControl_line(
                          ReadEach(r, r.l.propmask, <<"fBackColor", "fForeColor", "fNextAvailableID">>, 4),
                          213, stop)
                 [] line = 213 ->
                      consume_FormControl_line(
                          r, IF getitem(r.l.propmask, "fBooleanProperties") = 1 THEN 214 ELSE 217, stop)
                 [] line = 214 ->
                      consume_FormControl_line(
                          Assign(unpack(r, "<L", 4), "BooleanProperties"), 215, stop)
                 \* either branch is the last statement of the with block of line 207:
                 \* its __exit__ follows
                 [] line = 215 ->
                      consume_FormControl_line(
                          exit([r EXCEPT !.l.FORM_FLAG_DONTSAVECLASSTABLE =
                                             BitOf(r.l.BooleanProperties, 15)]), 220, stop)
                 [] line = 217 ->
                      consume_FormControl_line(
                          exit([r EXCEPT !.l.FORM_FLAG_DONTSAVECLASSTABLE = 0]), 220, stop)
                 [] line = 220 ->
                      consume_FormControl_line(
                          IF getitem(r.l.propmask, "fMouseIcon") = 1 THEN consume_GuidAndPicture(r) ELSE r,
                          222, stop)
                 [] line = 222 ->
                      consume_FormControl_line(
                          IF getitem(r.l.propmask, "fFont") = 1 THEN consume_GuidAndFont(r) ELSE r,
                          224, stop)
                 [] line = 224 ->
                      consume_FormControl_line(
                          IF getitem(r.l.propmask, "fPicture") = 1 THEN consume_GuidAndPicture(r) ELSE r,
                          227, stop)
                 [] line = 227 ->
                      consume_FormControl_line(
                          r, IF r.l.FORM_FLAG_DONTSAVECLASSTABLE = 0 THEN 228 ELSE 231, stop)
                 [] line = 228 ->
                      consume_FormControl_line(
                          Assign(unpack(r, "<H", 2), "CountOfSiteClassInfo"), 229, stop)
                 [] line = 229 ->
                      consume_FormControl_line(
                          SiteClassInfos(r, r.l.CountOfSiteClassInfo), 231, stop)
                 [] line = 231 ->
                      consume_FormControl_line(
                          AssignItem(AssignItem(unpacks(r, "<LL", 8), "CountOfSites", 1),
                                     "CountOfBytes", 2), 232, stop)
                 [] line = 232 ->
                      consume_FormControl_line(
                          [r EXCEPT !.l.remaining_SiteDepthsAndTypes = ToInt(r.l.CountOfSites)],
                          233, stop)
                 [] line = 233 ->
                      consume_FormControl_line(enter(will_pad(r, will_pad_default)), 234, stop)
          : r \in {call}})

consume_MorphDataControl_locals ==
    [cbMorphData |-> 0, propmask |-> <<>>, value_size |-> 0, value |-> <<>>]

RECURSIVE consume_MorphDataControl_line(_, _)
consume_MorphDataControl_line(call, line) ==
    Only({IF Raised(r) THEN r
          ELSE CASE line = 241 ->
                      consume_MorphDataControl_line(
                          check_values(r, "MorphDataControl (versions)", "<BB", 2, <<0, 2>>), 242)
                 [] line = 242 ->
                      consume_MorphDataControl_line(Assign(unpack(r, "<H", 2), "cbMorphData"), 243)
                 [] line = 243 ->
                      consume_MorphDataControl_line(enter(will_jump_to(r, r.l.cbMorphData)), 244)
                 [] line = 244 ->
                      consume_MorphDataControl_line(
                          Assign(MorphDataPropMaskOf(unpack(r, "<Q", 8)), "propmask"), 246)
                 [] line = 246 ->
                      consume_MorphDataControl_line(
                          ReadEach(r, r.l.propmask,
                                   <<"fVariousPropertyBits", "fBackColor", "fForeColor", "fMaxLength">>,
                                   4), 249)
                 [] line = 249 ->
                      consume_MorphDataControl_line(enter(will_pad(r, will_pad_default)), 250)
                 \* the only statement of the with block of line 249, and its __exit__
                 [] line = 250 ->
                      consume_MorphDataControl_line(
                          exit(ReadEach(r, r.l.propmask,
                                        <<"fBorderStyle", "fScrollBars", "fDisplayStyle",
                                          "fMousePointer">>, 1)), 255)
                 [] line = 255 ->
                      consume_MorphDataControl_line(
                          ReadEach(r, r.l.propmask,
                                   <<"fPasswordChar", "fListWidth", "fBoundColumn", "fTextColumn",
                                     "fColumnCount", "fListRows">>, 4), 259)
                 [] line = 259 ->
                      consume_MorphDataControl_line(enter(will_pad(r, will_pad_default)), 260)
                 [] line = 260 ->
                      consume_MorphDataControl_line(
                          IF getitem(r.l.propmask, "fcColumnInfo") = 1 THEN read(r, 2) ELSE r, 262)
                 \* the last statement of the with block of line 259, and its __exit__
                 [] line = 262 ->
                      consume_MorphDataControl_line(
                          exit(ReadEach(r, r.l.propmask,
                                        <<"fMatchEntry", "fListStyle", "fShowDropButtonWhen",
                                          "fDropButtonStyle", "fMultiSelect">>, 1)), 266)
                 [] line = 266 ->
                      consume_MorphDataControl_line(
                          IF getitem(r.l.propmask, "fValue") = 1
                          THEN Assign(consume_CountOfBytesWithCompressionFlag(r), "value_size")
                          ELSE [r EXCEPT !.l.value_size = 0], 272)
                 [] line = 272 ->
                      consume_MorphDataControl_line(
                          ReadEach(r, r.l.propmask,
                                   <<"fCaption", "fPicturePosition", "fBorderColor", "fSpecialEffect",
                                     "fMouseIcon", "fPicture", "fAccelerator", "fGroupName">>, 4),
                          277)
                 [] line = 277 -> consume_MorphDataControl_line(read(r, 8), 278)
                 \* the last statement of the with block of line 243, and its __exit__
                 [] line = 278 ->
                      consume_MorphDataControl_line(
                          exit(Assign(read(r, r.l.value_size), "value")), 280)
                 [] line = 280 ->
                      consume_MorphDataControl_line(
                          IF getitem(r.l.propmask, "fMouseIcon") = 1 THEN consume_GuidAndPicture(r) ELSE r,
                          282)
                 [] line = 282 ->
                      consume_MorphDataControl_line(
                          IF getitem(r.l.propmask, "fPicture") = 1 THEN consume_GuidAndPicture(r) ELSE r,
                          284)
                 [] line = 284 -> consume_MorphDataControl_line(consume_TextProps(r), 285)
                 [] line = 285 -> Ret(r, r.l.value)
          : r \in {call}})

consume_MorphDataControl(r) ==
    Return(consume_MorphDataControl_line(Frame(r, consume_MorphDataControl_locals), 241), r)

----------------------------------------------------------------------------
(* extract_OleFormVariables *)

None == [none |-> TRUE, bytes |-> <<>>]

Bytes(b) == [none |-> FALSE, bytes |-> b]

\* var['value'] = value
WithValue(var, value) ==
    [name |-> var.name, tag |-> var.tag, id |-> var.id, tabindex |-> var.tabindex,
     ClsidCacheIndex |-> var.ClsidCacheIndex, value |-> value]

\* var['value'] = the value the call r returned
SetValue(var, r) == Ret(r, WithValue(var, Bytes(r.v)))

\* a variant of SetValue that keeps the value only for ClsidCacheIndex 23
SetValueIf23(var, r) ==
    Ret(r, WithValue(var, IF var.ClsidCacheIndex # 23 THEN None ELSE Bytes(r.v)))

\* a variant of AttachValue with the raise of line 294 in place of the print
AttachValueOrRaise(var, r) ==
    IF var.ClsidCacheIndex # 23
    THEN [r EXCEPT !.err = OleFormParsingError(0, <<"Unsupported stored type", var.ClsidCacheIndex>>)]
    ELSE SetValue(var, consume_MorphDataControl(r))

\* a variant of AttachValue that decodes a MorphDataControl for every site
AttachValueDecodeAll(var, r) == SetValueIf23(var, consume_MorphDataControl(r))

\* lines 293-299, the body of the loop over the sites; r is a call on data
AttachValue(var, r) ==
    IF var.ClsidCacheIndex # 23
    THEN Ret(r, WithValue(var, None))
    ELSE SetValue(var, consume_MorphDataControl(r))

----------------------------------------------------------------------------
(* Streams of a form: the 'f' stream with its sites and the 'o' stream with *)
(* the MorphDataControl of each site of ClsidCacheIndex 23.                 *)

TextPropsBlock(n) == <<0, 2>> \o LE16(n) \o Fill(n, 3)

PictureBlock(n) ==
    <<4, 82, 227, 11, 145, 143, 206, 17, 157, 227, 0, 170, 0, 75, 184, 81>>
      \o <<108, 116, 0, 0>> \o LE32(n) \o Fill(n, 5)

StdFontBlock(face) ==
    <<3, 82, 227, 11, 145, 143, 206, 17, 157, 227, 0, 170, 0, 75, 184, 81>>
      \o <<1>> \o Fill(9, 4) \o <<Len(face)>> \o face

Pad4(b) == b \o Fill((4 - (Len(b) % 4)) % 4, 0)

MorphBlock(on, value) ==
    LET n == MorphDataPropMask_names
        body == MaskBytes(n, on, 8)
                  \o Fill(4 * Count(<<"fVariousPropertyBits", "fBackColor", "fForeColor",
                                      "fMaxLength">>, on), 1)
                  \o Pad4(Fill(Count(<<"fBorderStyle", "fScrollBars", "fDisplayStyle",
                                       "fMousePointer">>, on), 2))
                  \o Fill(4 * Count(<<"fPasswordChar", "fListWidth", "fBoundColumn", "fTextColumn",
                                      "fColumnCount", "fListRows">>, on), 3)
                  \o Pad4(If("fcColumnInfo" \in on, <<1, 0>>)
                            \o Fill(Count(<<"fMatchEntry", "fListStyle", "fShowDropButtonWhen",
                                            "fDropButtonStyle", "fMultiSelect">>, on), 4))
                  \o If("fValue" \in on, CC(Len(value)))
                  \o Fill(4 * Count(<<"fCaption", "fPicturePosition", "fBorderColor",
                                      "fSpecialEffect", "fMouseIcon", "fPicture", "fAccelerator",
                                      "fGroupName">>, on), 5)
                  \o Fill(8, 6)
                  \o If("fValue" \in on, value)
    IN  <<0, 2>> \o LE16(Len(body)) \o body
          \o If("fMouseIcon" \in on, PictureBlock(1)) \o If("fPicture" \in on, PictureBlock(0))
          \o TextPropsBlock(2)

\* the 'f' stream up to the depth/type records
FormBlock(on, boolprops, slack, classinfos, CountOfSites) ==
    LET body == MaskBytes(FormPropMask_names, on, 4)
                  \o Fill(4 * Count(<<"fBackColor", "fForeColor", "fNextAvailableID">>, on), 1)
                  \o If("fBooleanProperties" \in on, LE32(boolprops))
                  \o Fill(slack, 238)
    IN  <<0, 4>> \o LE16(Len(body)) \o body
          \o If("fMouseIcon" \in on, PictureBlock(2)) \o If("fFont" \in on, StdFontBlock(<<70>>))
          \o If("fPicture" \in on, PictureBlock(0))
          \o If(~("fBooleanProperties" \in on /\ boolprops = 32768),
                LE16(classinfos) \o Fill(classinfos, 0) \o Fill(classinfos, 0)
                   \o Fill(classinfos, 0) \o Fill(classinfos, 0))
          \o LE32(CountOfSites) \o LE32(0)

FormHeads ==
    {[on |-> {}, boolprops |-> 0, slack |-> 0, classinfos |-> 0],
     [on |-> {"fBackColor", "fBooleanProperties", "fFont", "fCaption"}, boolprops |-> 4,
      slack |-> 4, classinfos |-> 1],
     [on |-> {"fBooleanProperties", "fMouseIcon", "fPicture"}, boolprops |-> 32768,
      slack |-> 0, classinfos |-> 0]}

MorphFlagSets ==
    {{"fValue"},
     {"fValue", "fVariousPropertyBits", "fBorderStyle", "fcColumnInfo", "fMatchEntry",
      "fCaption", "fSize"},
     {"fValue", "fMouseIcon", "fListRows"}}

\* the sites of a form: at most MaxSites, each of ClsidCacheIndex 23 or 99
MaxSites == 3

ClsidLists == UNION {[1..n -> {23, 99}] : n \in 0..MaxSites}

RECURSIVE Concat(_)
Concat(blocks) == IF blocks = <<>> THEN <<>> ELSE Head(blocks) \o Concat(Tail(blocks))

SiteOf(k, clsid) ==
    SiteBlock({"fName", "fID", "fTabIndex", "fClsidCacheIndex"}, <<64 + k>>, <<>>, k, k, clsid, 0)

\* the encodings of the depth/type records of n sites: one record a site; one
\* run of n (a run of 0 when n = 0); a run of 0 before the records; a run of
\* n + 1; one record too few; runs of 0 only
DepthKinds == {"singles", "run", "zero-first", "over", "short", "stall"}

DepthRecords(kind, n) ==
    CASE kind = "singles"    -> Concat([k \in 1..n |-> <<0, 1>>])
      [] kind = "run"        -> <<0, 128 + n, 1>>
      [] kind = "zero-first" -> <<0, 128, 1>> \o Concat([k \in 1..n |-> <<0, 1>>])
      [] kind = "over"       -> <<0, 128 + n + 1, 1>>
      [] kind = "short"      -> Concat([k \in 1..(n - 1) |-> <<0, 1>>])
      [] kind = "stall"      -> <<1, 128, 1, 1, 128, 1, 1, 128, 1, 1, 128, 1>>

FormStream(head, kind, clsids) ==
    FormBlock(head.on, head.boolprops, head.slack, head.classinfos, Len(clsids))
      \o Pad4(DepthRecords(kind, Len(clsids)))
      \o If(kind # "stall", Concat([k \in 1..Len(clsids) |-> SiteOf(k, clsids[k])]))

ValueOf(k) == <<104, 48 + k>>

\* the 'o' stream: a MorphDataControl for each site of ClsidCacheIndex 23, in
\* the order of the sites; the value of site k is ValueOf(k)
DataStream(on, clsids) ==
    Concat([k \in 1..Len(clsids) |->
              If(clsids[k] = 23, MorphBlock(on, ValueOf(k)))])

\* bytes cut from the end of a stream
FormCut == 3
DataCut == 5

Cut(b, n) == SubSeq(b, 1, Len(b) - n)

Init ==
    \E head \in FormHeads, kind \in DepthKinds, clsids \in ClsidLists,
       on \in MorphFlagSets, fcut \in {0, FormCut}, dcut \in {0, DataCut} :
        /\ control = ExtendedStream(Cut(FormStream(head, kind, clsids), fcut))
        /\ data = ExtendedStream(Cut(DataStream(on, clsids), dcut))
        /\ variables = <<>>
        /\ frame = NoFrame
        /\ pc = "start"
        /\ ret = Call(ExtendedStream(<<>>))
        /\ obs = [op |-> "init", valid |-> fcut = 0 /\ dcut = 0 /\ kind \in {"singles", "run", "zero-first"},
                  zero |-> FALSE, attached |-> <<>>, decodes |-> 0,
                  dataPos |-> 0, dataOff |-> 0]

\* an exception leaves extract_OleFormVariables: its locals are gone and
\* the caller has the exception, not a list
Raise(r) ==
    /\ pc' = "raised"
    /\ ret' = [r EXCEPT !.s = ExtendedStream(<<>>), !.v = <<>>]
    /\ variables' = <<>>
    /\ frame' = NoFrame

\* lines 288-289 and consume_FormControl up to line 233
ExtractStart ==
    /\ pc = "start"
    /\ \E r \in {consume_FormControl_line(
                     Frame(Call(control), consume_FormControl_locals), 205, 234)} :
         /\ control' = r.s
         /\ IF Raised(r) THEN Raise(r)
            ELSE /\ frame' = [CountOfSites |-> ToInt(r.l.CountOfSites),
                              remaining |-> r.l.remaining_SiteDepthsAndTypes, i |-> 0]
                 /\ pc' = "depths"
                 /\ UNCHANGED <<variables, ret>>
    /\ obs' = [obs EXCEPT !.op = "head"]
    /\ UNCHANGED data

\* lines 234-235, one turn of the loop
DepthTypeStep ==
    /\ pc = "depths"
    /\ frame.remaining > 0
    /\ \E r \in {consume_FormObjectDepthTypeCount(Call(control))} :
         /\ control' = r.s
         /\ IF Raised(r) THEN Raise(r)
            ELSE /\ frame' = [frame EXCEPT !.remaining = @ - r.v]
                 /\ UNCHANGED <<variables, ret, pc>>
         /\ obs' = [obs EXCEPT !.op = "depth",
                               !.zero = @ \/ (~Raised(r) /\ r.v = 0)]
    /\ UNCHANGED data

\* the loop of lines 234-235 is left and the padded region closed
DepthTypeClose ==
    /\ pc = "depths"
    /\ frame.remaining <= 0
    /\ \E r \in {exit(Call(control))} :
         /\ control' = r.s
         /\ IF Raised(r) THEN Raise(r)
            ELSE /\ pc' = "sites"
                 /\ UNCHANGED <<variables, ret, frame>>
    /\ obs' = [obs EXCEPT !.op = "close"]
    /\ UNCHANGED data

\* lines 236-237, one site yielded to list()
SiteYield ==
    /\ pc = "sites"
    /\ frame.i < frame.CountOfSites
    /\ \E r \in {consume_OleSiteConcreteControl(Call(control))} :
         /\ control' = r.s
         /\ IF Raised(r) THEN Raise(r)
            ELSE /\ variables' = Append(variables, r.v)
                 /\ frame' = [frame EXCEPT !.i = @ + 1]
                 /\ UNCHANGED <<ret, pc>>
    /\ obs' = [obs EXCEPT !.op = "site"]
    /\ UNCHANGED data

\* the generator is exhausted: line 289 has its list, line 291 opens 'o'
SitesDone ==
    /\ pc = "sites"
    /\ frame.i >= frame.CountOfSites
    /\ pc' = "values"
    /\ frame' = [frame EXCEPT !.i = 0]
    /\ data' = ExtendedStream(data.stream)
    /\ obs' = [obs EXCEPT !.op = "list", !.attached = [k \in 1..Len(variables) |-> 0]]
    /\ UNCHANGED <<control, variables, ret>>

\* a variant of ExtractReturn for a return statement inside the loop of line 292
ExtractReturnInLoop ==
    /\ pc = "values"
    /\ frame.i >= 1 \/ variables = <<>>
    /\ pc' = "returned"
    /\ ret' = [Call(ExtendedStream(<<>>)) EXCEPT !.v = variables]
    /\ obs' = [obs EXCEPT !.op = "return"]
    /\ UNCHANGED <<control, data, variables, frame>>

\* lines 292-299, one turn of the loop over the sites
AttachStep ==
    /\ pc = "values"
    /\ frame.i < Len(variables)
    /\ \E r \in {AttachValue(variables[frame.i + 1], Call(data))} :
         /\ data' = r.s
         /\ IF Raised(r) THEN Raise(r)
            ELSE /\ variables' = [variables EXCEPT ![frame.i + 1] = r.v]
                 /\ frame' = [frame EXCEPT !.i = @ + 1]
                 /\ UNCHANGED <<ret, pc>>
         /\ obs' = [obs EXCEPT !.op = "attach",
                               !.attached[frame.i + 1] = @ + (IF Raised(r) THEN 0 ELSE 1),
                               !.decodes = @ + (IF r.s.pos # data.pos THEN 1 ELSE 0),
                               !.dataPos = data.pos, !.dataOff = data.off]
    /\ UNCHANGED control

\* line 300
ExtractReturn ==
    /\ pc = "values"
    /\ frame.i >= Len(variables)
    /\ pc' = "returned"
    /\ ret' = [Call(ExtendedStream(<<>>)) EXCEPT !.v = variables]
    /\ obs' = [obs EXCEPT !.op = "return"]
    /\ UNCHANGED <<control, data, variables, frame>>

Next ==
    \/ ExtractStart
    \/ DepthTypeStep
    \/ DepthTypeClose
    \/ SiteYield
    \/ SitesDone
    \/ AttachStep
    \/ ExtractReturn

Spec == Init /\ [][Next]_vars

\* the loop of lines 234-235 runs on: its next turn, or its exit, is taken
\* whenever it is possible
FairSpec == Init /\ [][Next]_vars /\ WF_vars(DepthTypeStep) /\ WF_vars(DepthTypeClose)

----------------------------------------------------------------------------
(* Properties of extract_OleFormVariables *)

\* the number of the first n sites that have ClsidCacheIndex 23
Decodable(n) == Cardinality({k \in 1..n : variables[k].ClsidCacheIndex = 23})

\* C4: on a well-formed form whose sites have ClsidCacheIndex 23 or another
\* value, extraction is not aborted, and in the list returned a site with
\* another ClsidCacheIndex has the value None while every site with
\* ClsidCacheIndex 23 has the value of its own MorphDataControl, wherever the
\* unsupported sites are in the list.
C4_UnsupportedGetsNone ==
    obs.valid =>
        /\ pc # "raised"
        /\ pc = "returned" =>
             \A k \in 1..Len(ret.v) :
                ret.v[k].value = IF ret.v[k].ClsidCacheIndex # 23 THEN None
                                 ELSE Bytes(ValueOf(k))

\* a list returned with an unsupported site between two supported ones
C4_Witness ==
    /\ pc = "returned" /\ obs.valid /\ Len(ret.v) = 3
    /\ ret.v[1].ClsidCacheIndex = 23 /\ ret.v[1].value = Bytes(ValueOf(1))
    /\ ret.v[2].ClsidCacheIndex = 99 /\ ret.v[2].value = None
    /\ ret.v[3].ClsidCacheIndex = 23 /\ ret.v[3].value = Bytes(ValueOf(3))

\* C5: extraction is all-or-nothing.  When an error is raised, in the decoding
\* of the sites or of a MorphDataControl, the caller gets the error and no
\* list, whatever was built before; a list is returned only with one record
\* for each of the CountOfSites sites, each with its value attached exactly
\* once.
C5_AllOrNothing ==
    /\ pc = "raised" => Raised(ret) /\ ret.v = <<>> /\ variables = <<>>
    /\ pc = "returned" =>
         /\ ~Raised(ret)
         /\ Len(ret.v) = frame.CountOfSites
         /\ \A k \in 1..Len(ret.v) :
              /\ obs.attached[k] = 1
              /\ DOMAIN ret.v[k] = {"name", "tag", "id", "tabindex", "ClsidCacheIndex", "value"}

\* an error in the MorphDataControl of a site after values were attached to
\* the sites before it: nothing is returned
C5_Witness ==
    /\ pc = "raised" /\ obs.op = "attach"
    /\ \E k \in DOMAIN obs.attached : obs.attached[k] = 1
    /\ \E k \in DOMAIN obs.attached : obs.attached[k] = 0
    /\ ret.v = <<>>

\* C9: the loop over the depth/type records terminates.  A turn that leaves
\* the loop running has consumed at least 2 bytes of the stream, and the loop
\* is always left, by the sum of the counts reaching CountOfSites or by an
\* error, records with a count of 0 included.
C9_DepthLoopTerminates ==
    /\ [][(pc = "depths" /\ pc' = "depths") => control'.off >= control.off + 2]_vars
    /\ (pc = "depths") ~> (pc # "depths")

\* the loop fed with records of count 0 only, left by the error at the end
\* of the stream
C9_Witness ==
    /\ pc = "raised" /\ obs.op = "depth" /\ obs.zero
    /\ ret.err.kind = "struct.error"
    /\ control.off = Len(control.stream)

\* C10: the step for a site whose ClsidCacheIndex is not 23 leaves the cursor
\* of the 'o' stream where it was; the number of MorphDataControl decodes is
\* the number of sites with ClsidCacheIndex 23 handled so far, and the k-th
\* decode gives its value to the k-th of them.
C10_DataCursor ==
    /\ (obs.op = "attach" /\ pc = "values" /\ variables[frame.i].ClsidCacheIndex # 23) =>
           /\ data.pos = obs.dataPos
           /\ data.off = obs.dataOff
    /\ pc \in {"values", "returned"} =>
           /\ obs.decodes = Decodable(frame.i)
           /\ \A k \in 1..frame.i :
                variables[k].ClsidCacheIndex = 23 => variables[k].value = Bytes(ValueOf(k))

\* an unsupported site handled after a decode and before another: the cursor
\* stays and the second decode gives its value to the third site
C10_Witness ==
    /\ pc = "values" /\ obs.op = "attach" /\ frame.i = 3
    /\ variables[1].ClsidCacheIndex = 23
    /\ variables[2].ClsidCacheIndex = 99 /\ variables[2].value = None
    /\ variables[3].ClsidCacheIndex = 23 /\ variables[3].value = Bytes(ValueOf(3))
    /\ obs.decodes = 2

====
